---- MODULE Spec2Model ----
(***************************************************************************)
(* Model of src/sw.js, the ZaqApp service worker: the install and          *)
(* activate lifecycle handlers, the fetch dispatcher with its caching      *)
(* strategies, and the background sync.  The cache registry (CacheStorage) *)
(* is an insertion-ordered list of named stores, each store a function     *)
(* from request URL to a stored response.                                  *)
(***************************************************************************)
EXTENDS Integers, Sequences, FiniteSets, TLC

\* ------------------------------------------------------------------ bounds
\* Largest content version the network serves for a URL (1..MaxVer).
MaxVer == 2
\* Longest configured API endpoint list (the source configures one endpoint).
MaxEndpoints == 2
\* How many past versions of each store may still be in the registry at start.
MaxOldVersions == 2

\* --------------------------------------------------------- program constants
AssetVersion == 5
ApiVersion == 3
CACHE_NAME == "zaq_myapp_v" \o ToString(AssetVersion)
API_CACHE_NAME == "zaq_api_cache_v" \o ToString(ApiVersion)

urlsToCache ==
    << "./", "./index.html", "./about.html", "./contact.html", "./main.css",
       "./manifest.json", "./sw.js", "./app.js", "./images/icons/favicon.ico",
       "./images/icons/favicon.svg", "./images/icons/site.webmanifest",
       "./offline.html" >>

ApiHostname == "jsonplaceholder.typicode.com"
FirstLimit == 5
\* The i-th endpoint of a configured list; the first is the source's endpoint.
EndpointUrl(i) ==
    [protocol |-> "https:", hostname |-> ApiHostname,
     path |-> "/posts?_limit=" \o ToString(FirstLimit + i - 1)]
API_ENDPOINTS == << EndpointUrl(1) >>
\* The endpoint lists a deployment may be configured with.
EndpointLists == { [i \in 1..n |-> EndpointUrl(i)] : n \in 1..MaxEndpoints }

StatusOk == 200
StatusNotFound == 404
StatusUnavailable == 503

\* ----------------------------------------------------------------- requests
\* location of the worker script; relative URLs resolve against it.
location == [protocol |-> "https:", hostname |-> "zaqapp.example"]
Origin(url) == url.protocol \o "//" \o url.hostname
\* new Request('./x') / caches.match('./x'): a relative URL made absolute.
Resolve(rel) ==
    [protocol |-> location.protocol, hostname |-> location.hostname, path |-> rel]

OfflineUrl == Resolve("./offline.html")
IndexUrl == Resolve("./index.html")
CrossUrl == [protocol |-> "https:", hostname |-> "cdn.example.net", path |-> "lib/widget.js"]
ExtensionUrl ==
    [protocol |-> "chrome-extension:", hostname |-> "abcdefgh", path |-> "content.js"]

\* A moz-extension: request, an extension page's request to the API host, and
\* a request to the worker's host over another scheme (another origin).
MozExtensionUrl ==
    [protocol |-> "moz-extension:", hostname |-> "ijklmnop", path |-> "content.js"]
ExtensionApiUrl ==
    [protocol |-> "chrome-extension:", hostname |-> ApiHostname, path |-> "/posts"]
InsecureUrl == [protocol |-> "http:", hostname |-> location.hostname, path |-> "./index.html"]

SameOriginUrls == {OfflineUrl, IndexUrl}
CrossOriginUrls == {CrossUrl, ExtensionUrl}
ApiUrls == {EndpointUrl(1)}
\* Every URL a request or a store entry can carry.
Urls ==
    {Resolve(urlsToCache[i]) : i \in 1..Len(urlsToCache)}
        \cup {EndpointUrl(i) : i \in 1..MaxEndpoints} \cup CrossOriginUrls
        \cup {MozExtensionUrl, ExtensionApiUrl, InsecureUrl}
\* url.href of each URL: the origin, then the path.
Hrefs == [url \in Urls |-> Origin(url) \o "/" \o url.path]
Href(url) == Hrefs[url]

\* The accept header: absent (headers.get gives null) or a list of media types.
NoAccept == [present |-> FALSE, types |-> {}]
HtmlAccept == [present |-> TRUE, types |-> {"text/html", "application/xhtml+xml"}]
AnyAccept == [present |-> TRUE, types |-> {"*/*"}]
Accepts == {NoAccept, HtmlAccept, AnyAccept}
Modes == {"navigate", "no-cors"}

\* The requests a controlled page can raise a fetch event with: a navigation
\* reaches the worker for URLs of its own origin only.
PageRequests ==
    [url : SameOriginUrls, mode : Modes, accept : Accepts]
        \cup [url : CrossOriginUrls \cup ApiUrls, mode : {"no-cors"},
               accept : Accepts]
\* Every request a fetch event can carry: any scheme, host, mode and accept.
AnyRequests ==
    [url : SameOriginUrls \cup CrossOriginUrls \cup ApiUrls
               \cup {MozExtensionUrl, ExtensionApiUrl, InsecureUrl},
     mode : Modes, accept : Accepts]
\* The requests of the pages to the API host.
ApiRequests == [url : ApiUrls, mode : {"no-cors"}, accept : {AnyAccept}]
\* The requests a test hands to a strategy function directly.
DirectRequests == [url : SameOriginUrls \cup {CrossUrl}, mode : Modes, accept : Accepts]

\* request.headers.get('accept') && request.headers.get('accept').includes('text/html')
AcceptsHtml(request) == request.accept.present /\ "text/html" \in request.accept.types

\* ---------------------------------------------------------------- responses
\* A response object: status, body (the content served for a URL, named by the
\* URL), content version, and whether its body stream has been consumed.
undefined == [status |-> 0, body |-> "undefined", ver |-> 0, bodyUsed |-> FALSE]
ok(response) == response.status >= 200 /\ response.status <= 299

\* What the network does with one fetch: throw, or answer with a status.
NetOutcomes ==
    {[threw |-> TRUE, status |-> 0, ver |-> 0],
     [threw |-> FALSE, status |-> StatusNotFound, ver |-> 0]}
        \cup {[threw |-> FALSE, status |-> StatusOk, ver |-> v] : v \in 1..MaxVer}

\* fetch(request) when the network does not throw.
NetworkResponse(url, net) ==
    [status |-> net.status, body |-> Href(url), ver |-> net.ver, bodyUsed |-> FALSE]

\* response.clone(): an independent, unconsumed duplicate.
clone(response) == [response EXCEPT !.bodyUsed = FALSE]
\* A response whose body was handed to cache.put is consumed.
Consumed(response) == [response EXCEPT !.bodyUsed = TRUE]

\* new Response(JSON.stringify([]), {headers: {'Content-Type': 'application/json'}})
EmptyArrayResponse ==
    [status |-> StatusOk, body |-> "[]", ver |-> 0, bodyUsed |-> FALSE]
\* new Response('Offline - ...', {status: 503, statusText: 'Service Unavailable'})
UnavailableResponse ==
    [status |-> StatusUnavailable,
     body |-> "Offline - Service worker failed to fetch content",
     ver |-> 0, bodyUsed |-> FALSE]

\* ------------------------------------------------------------ cache registry
\* w = [names |-> store names in creation order, stores |-> name -> (url -> entry)]
EmptyStore == [u \in {} |-> undefined]
Range(s) == {s[i] : i \in 1..Len(s)}

Open_AlwaysCreates(w, name) ==
    [names |-> Append(w.names, name),
     stores |-> (name :> EmptyStore) @@ w.stores]

\* caches.open(name): the store is created when the registry has none so named.
Open(w, name) ==
    IF name \in Range(w.names) THEN w
    ELSE [names |-> Append(w.names, name),
          stores |-> (name :> EmptyStore) @@ w.stores]

\* cache.match(url) on one store.
CacheMatch(store, url) == IF url \in DOMAIN store THEN store[url] ELSE undefined

\* caches.match(url): the first match over ALL stores, in creation order.
CachesMatch(w, url) ==
    LET hits == {i \in 1..Len(w.names) : url \in DOMAIN w.stores[w.names[i]]}
    IN IF hits = {} THEN undefined
       ELSE w.stores[w.names[CHOOSE i \in hits : \A j \in hits : i <= j]][url]

CachePut_IfAbsent(w, name, url, response) ==
    [w EXCEPT !.stores[name] = @ @@ (url :> clone(response))]

\* cache.put(url, response) on the named store, when the write succeeds.
CachePut(w, name, url, response) ==
    [w EXCEPT !.stores[name] = (url :> clone(response)) @@ @]

\* caches.delete(name), when it succeeds.
RECURSIVE Without(_, _)
Without(names, gone) ==
    IF names = << >> THEN << >>
    ELSE IF Head(names) \in gone THEN Without(Tail(names), gone)
    ELSE << Head(names) >> \o Without(Tail(names), gone)
CachesDelete(w, gone) ==
    [names |-> Without(w.names, gone),
     stores |-> [n \in (DOMAIN w.stores) \ gone |-> w.stores[n]]]

\* cache.addAll(urls): fetches every URL and stores all of them, or none when
\* any fetch throws or answers non-ok.  urls is a set of absolute URLs,
\* outcome = [ok, ver].
AddAll(w, name, urls, outcome) ==
    IF outcome.ok
    THEN [w EXCEPT !.stores[name] =
            [u \in urls |->
                [status |-> StatusOk, body |-> Href(u), ver |-> outcome.ver,
                 bodyUsed |-> FALSE]] @@ @]
    ELSE w
AddAllOutcomes ==
    {[ok |-> FALSE, ver |-> 0]} \cup {[ok |-> TRUE, ver |-> v] : v \in 1..MaxVer}

\* One network call as the handlers see it: the network's answer, and whether
\* a cache.put of an ok answer would succeed (uncacheable responses throw).
FetchOutcomes ==
    {[net |-> n, putOk |-> TRUE] : n \in NetOutcomes}
        \cup {[net |-> n, putOk |-> FALSE] : n \in {m \in NetOutcomes : ~m.threw /\ m.status = StatusOk}}

\* The outcomes of the n network calls of one sync run: each call throws, is
\* answered non-ok, or is answered ok with the content version of that run.
SyncOutcomes(n) ==
    UNION {{[i \in 1..n |-> o[i]] :
                o \in [1..n -> {f \in FetchOutcomes : f.net.ver \in {0, v}}]}
           : v \in 1..MaxVer}

PutRecord(name, url, response, putOk) ==
    [cache |-> name, url |-> url, response |-> response, ok |-> putOk]

\* ----------------------------------------------------------------- handlers
\* Each handler maps (request, registry, network outcome) to the registry it
\* leaves, the response its promise resolves to, the network calls it made and
\* the store writes it attempted.

handleApiRequest_NoFallback(request, w, o) ==
    LET networkResponse == NetworkResponse(request.url, o.net)
        responseClone == clone(networkResponse)
        opened == Open(w, API_CACHE_NAME)
    IN IF ~o.net.threw /\ ok(networkResponse)
       THEN [w |-> IF o.putOk
                   THEN CachePut(opened, API_CACHE_NAME, request.url, responseClone)
                   ELSE opened,
             response |-> networkResponse,
             fetched |-> << request.url >>,
             puts |-> << PutRecord(API_CACHE_NAME, request.url, responseClone, o.putOk) >>]
       ELSE [w |-> w,
             response |-> IF o.net.threw THEN CachesMatch(w, request.url)
                          ELSE networkResponse,
             fetched |-> << request.url >>,
             puts |-> << >>]

handleApiRequest_PutOriginal(request, w, o) ==
    LET networkResponse == NetworkResponse(request.url, o.net)
        opened == Open(w, API_CACHE_NAME)
        cachedResponse == CachesMatch(w, request.url)
    IN IF ~o.net.threw /\ ok(networkResponse)
       THEN [w |-> IF o.putOk
                   THEN CachePut(opened, API_CACHE_NAME, request.url, networkResponse)
                   ELSE opened,
             response |-> Consumed(networkResponse),
             fetched |-> << request.url >>,
             puts |-> << PutRecord(API_CACHE_NAME, request.url, networkResponse, o.putOk) >>]
       ELSE [w |-> w,
             response |-> IF cachedResponse # undefined THEN cachedResponse
                          ELSE EmptyArrayResponse,
             fetched |-> << request.url >>,
             puts |-> << >>]

\* Network first; an ok answer is cloned, the clone put into the API store
\* (a throwing put is caught) and the original returned; otherwise the first
\* cached match, otherwise the empty JSON array.
handleApiRequest(request, w, o) ==
    LET networkResponse == NetworkResponse(request.url, o.net)
        responseClone == clone(networkResponse)
        opened == Open(w, API_CACHE_NAME)
        cachedResponse == CachesMatch(w, request.url)
    IN IF ~o.net.threw /\ ok(networkResponse)
       THEN [w |-> IF o.putOk
                   THEN CachePut(opened, API_CACHE_NAME, request.url, responseClone)
                   ELSE opened,
             response |-> networkResponse,
             fetched |-> << request.url >>,
             puts |-> << PutRecord(API_CACHE_NAME, request.url, responseClone, o.putOk) >>]
       ELSE [w |-> w,
             response |-> IF cachedResponse # undefined THEN cachedResponse
                          ELSE EmptyArrayResponse,
             fetched |-> << request.url >>,
             puts |-> << >>]

handleNavigationRequest_Revalidate(request, w, o) ==
    LET cachedPage == CachesMatch(w, request.url)
        networkResponse == NetworkResponse(request.url, o.net)
        responseClone == clone(networkResponse)
        opened == Open(w, CACHE_NAME)
        fallback == CachesMatch(w, OfflineUrl)
    IN IF ~o.net.threw /\ ok(networkResponse)
       THEN [w |-> IF o.putOk
                   THEN CachePut(opened, CACHE_NAME, request.url, responseClone)
                   ELSE opened,
             response |-> IF cachedPage # undefined THEN cachedPage
                          ELSE networkResponse,
             fetched |-> << request.url >>,
             puts |-> << PutRecord(CACHE_NAME, request.url, responseClone, o.putOk) >>]
       ELSE [w |-> w,
             response |-> IF cachedPage # undefined THEN cachedPage
                          ELSE IF fallback # undefined THEN fallback
                          ELSE CachesMatch(w, IndexUrl),
             fetched |-> << request.url >>,
             puts |-> << >>]

handleNavigationRequest_NoIndex(request, w, o) ==
    LET cachedPage == CachesMatch(w, request.url)
        networkResponse == NetworkResponse(request.url, o.net)
        responseClone == clone(networkResponse)
        opened == Open(w, CACHE_NAME)
    IN IF cachedPage # undefined
       THEN [w |-> w, response |-> cachedPage, fetched |-> << >>, puts |-> << >>]
       ELSE IF ~o.net.threw /\ ok(networkResponse)
       THEN [w |-> IF o.putOk
                   THEN CachePut(opened, CACHE_NAME, request.url, responseClone)
                   ELSE opened,
             response |-> networkResponse,
             fetched |-> << request.url >>,
             puts |-> << PutRecord(CACHE_NAME, request.url, responseClone, o.putOk) >>]
       ELSE [w |-> w,
             response |-> CachesMatch(w, OfflineUrl),
             fetched |-> << request.url >>,
             puts |-> << >>]

\* Cache first (the first match over the registry); on a miss the network,
\* an ok answer being cloned into the asset store and returned; when that
\* fails too, the offline page, and the index page when there is none.
handleNavigationRequest(request, w, o) ==
    LET cachedPage == CachesMatch(w, request.url)
        networkResponse == NetworkResponse(request.url, o.net)
        responseClone == clone(networkResponse)
        opened == Open(w, CACHE_NAME)
        fallback == CachesMatch(w, OfflineUrl)
    IN IF cachedPage # undefined
       THEN [w |-> w, response |-> cachedPage, fetched |-> << >>, puts |-> << >>]
       ELSE IF ~o.net.threw /\ ok(networkResponse)
       THEN [w |-> IF o.putOk
                   THEN CachePut(opened, CACHE_NAME, request.url, responseClone)
                   ELSE opened,
             response |-> networkResponse,
             fetched |-> << request.url >>,
             puts |-> << PutRecord(CACHE_NAME, request.url, responseClone, o.putOk) >>]
       ELSE [w |-> w,
             response |-> IF fallback # undefined THEN fallback
                          ELSE CachesMatch(w, IndexUrl),
             fetched |-> << request.url >>,
             puts |-> << >>]

\* p || q on two promises: a promise object is truthy whatever it resolves to,
\* so the expression is always its left operand.
PromiseOr(p, q) == p

handleAppRequest_AnyAnswer(request, w, o) ==
    LET cachedResponse == CachesMatch(w, request.url)
        networkResponse == NetworkResponse(request.url, o.net)
        responseClone == clone(networkResponse)
        opened == Open(w, CACHE_NAME)
    IN IF cachedResponse # undefined
       THEN [w |-> w, response |-> cachedResponse, fetched |-> << >>, puts |-> << >>]
       ELSE IF ~o.net.threw /\ ok(networkResponse)
       THEN [w |-> IF o.putOk
                   THEN CachePut(opened, CACHE_NAME, request.url, responseClone)
                   ELSE opened,
             response |-> networkResponse,
             fetched |-> << request.url >>,
             puts |-> << PutRecord(CACHE_NAME, request.url, responseClone, o.putOk) >>]
       ELSE [w |-> w,
             response |-> IF ~o.net.threw THEN networkResponse
                          ELSE IF AcceptsHtml(request)
                          THEN PromiseOr(CachesMatch(w, OfflineUrl),
                                         CachesMatch(w, IndexUrl))
                          ELSE UnavailableResponse,
             fetched |-> << request.url >>,
             puts |-> << >>]

\* Cache first, then the network with the same clone-and-put; when that fails,
\* the fallback expression for an HTML accept header, else the 503.
handleAppRequest(request, w, o) ==
    LET cachedResponse == CachesMatch(w, request.url)
        networkResponse == NetworkResponse(request.url, o.net)
        responseClone == clone(networkResponse)
        opened == Open(w, CACHE_NAME)
    IN IF cachedResponse # undefined
       THEN [w |-> w, response |-> cachedResponse, fetched |-> << >>, puts |-> << >>]
       ELSE IF ~o.net.threw /\ ok(networkResponse)
       THEN [w |-> IF o.putOk
                   THEN CachePut(opened, CACHE_NAME, request.url, responseClone)
                   ELSE opened,
             response |-> networkResponse,
             fetched |-> << request.url >>,
             puts |-> << PutRecord(CACHE_NAME, request.url, responseClone, o.putOk) >>]
       ELSE [w |-> w,
             response |-> IF AcceptsHtml(request)
                          THEN PromiseOr(CachesMatch(w, OfflineUrl),
                                         CachesMatch(w, IndexUrl))
                          ELSE UnavailableResponse,
             fetched |-> << request.url >>,
             puts |-> << >>]

defaultStrategy_OkOnly(request, w, o) ==
    LET networkResponse == NetworkResponse(request.url, o.net)
    IN [w |-> w,
        response |-> IF ~o.net.threw /\ ok(networkResponse) THEN networkResponse
                     ELSE CachesMatch(w, request.url),
        fetched |-> << request.url >>,
        puts |-> << >>]

defaultStrategy_Caching(request, w, o) ==
    LET networkResponse == NetworkResponse(request.url, o.net)
        opened == Open(w, CACHE_NAME)
    IN [w |-> IF ~o.net.threw /\ ok(networkResponse)
              THEN CachePut(opened, CACHE_NAME, request.url, clone(networkResponse))
              ELSE w,
        response |-> IF o.net.threw THEN CachesMatch(w, request.url)
                     ELSE networkResponse,
        fetched |-> << request.url >>,
        puts |-> << >>]

\* fetch(request).catch(() => caches.match(request))
defaultStrategy(request, w, o) ==
    [w |-> w,
     response |-> IF o.net.threw THEN CachesMatch(w, request.url)
                  ELSE NetworkResponse(request.url, o.net),
     fetched |-> << request.url >>,
     puts |-> << >>]

Classify_NavigationFirst(request) ==
    IF request.url.protocol \in {"chrome-extension:", "moz-extension:"} THEN "ignored"
    ELSE IF request.mode = "navigate" \/ AcceptsHtml(request) THEN "navigation"
    ELSE IF request.url.hostname = ApiHostname THEN "api"
    ELSE IF Origin(request.url) = Origin(location) THEN "asset"
    ELSE "default"

Classify_OriginFirst(request) ==
    IF request.url.protocol \in {"chrome-extension:", "moz-extension:"} THEN "ignored"
    ELSE IF request.url.hostname = ApiHostname THEN "api"
    ELSE IF Origin(request.url) = Origin(location) THEN "asset"
    ELSE IF request.mode = "navigate" \/ AcceptsHtml(request) THEN "navigation"
    ELSE "default"

\* The fetch listener's dispatch: the first matching branch.
Classify(request) ==
    IF request.url.protocol \in {"chrome-extension:", "moz-extension:"} THEN "ignored"
    ELSE IF request.url.hostname = ApiHostname THEN "api"
    ELSE IF request.mode = "navigate" \/ AcceptsHtml(request) THEN "navigation"
    ELSE IF Origin(request.url) = Origin(location) THEN "asset"
    ELSE "default"

\* What the listener hands to event.respondWith; nothing for an ignored request.
Dispatch(request, w, o) ==
    CASE Classify(request) = "api" -> handleApiRequest(request, w, o)
      [] Classify(request) = "navigation" -> handleNavigationRequest(request, w, o)
      [] Classify(request) = "asset" -> handleAppRequest(request, w, o)
      [] Classify(request) = "default" -> defaultStrategy(request, w, o)
      [] OTHER -> [w |-> w, response |-> undefined, fetched |-> << >>, puts |-> << >>]

\* ------------------------------------------------------------ background sync
RECURSIVE SyncLoop_OneTry(_, _, _, _)
SyncLoop_OneTry(requests, outcomes, i, acc) ==
    IF i > Len(requests) THEN acc
    ELSE LET request == requests[i]
             o == outcomes[i]
             response == NetworkResponse(request, o.net)
             attempted == [acc EXCEPT !.fetched = Append(@, request)]
         IN IF o.net.threw THEN attempted
            ELSE SyncLoop_OneTry(requests, outcomes, i + 1,
                    IF ok(response)
                    THEN [attempted EXCEPT
                            !.w = IF o.putOk
                                  THEN CachePut(@, API_CACHE_NAME, request, clone(response))
                                  ELSE @,
                            !.puts = Append(@, PutRecord(API_CACHE_NAME, request,
                                                         clone(response), o.putOk))]
                    ELSE attempted)

RECURSIVE SyncLoop_PutAny(_, _, _, _)
SyncLoop_PutAny(requests, outcomes, i, acc) ==
    IF i > Len(requests) THEN acc
    ELSE LET request == requests[i]
             o == outcomes[i]
             response == NetworkResponse(request, o.net)
             attempted == [acc EXCEPT !.fetched = Append(@, request)]
         IN SyncLoop_PutAny(requests, outcomes, i + 1,
                IF ~o.net.threw
                THEN [attempted EXCEPT
                        !.w = IF o.putOk
                              THEN CachePut(@, API_CACHE_NAME, request, clone(response))
                              ELSE @,
                        !.puts = Append(@, PutRecord(API_CACHE_NAME, request,
                                                     clone(response), o.putOk))]
                ELSE attempted)

\* The loop of doBackgroundSync from the i-th request on: each request is
\* fetched inside its own try; an ok answer's clone is put into the API store.
RECURSIVE SyncLoop(_, _, _, _)
SyncLoop(requests, outcomes, i, acc) ==
    IF i > Len(requests) THEN acc
    ELSE LET request == requests[i]
             o == outcomes[i]
             response == NetworkResponse(request, o.net)
             attempted == [acc EXCEPT !.fetched = Append(@, request)]
         IN SyncLoop(requests, outcomes, i + 1,
                IF ~o.net.threw /\ ok(response)
                THEN [attempted EXCEPT
                        !.w = IF o.putOk
                              THEN CachePut(@, API_CACHE_NAME, request, clone(response))
                              ELSE @,
                        !.puts = Append(@, PutRecord(API_CACHE_NAME, request,
                                                     clone(response), o.putOk))]
                ELSE attempted)

doBackgroundSync(requests, w, outcomes) ==
    SyncLoop(requests, outcomes, 1,
             [w |-> Open(w, API_CACHE_NAME), response |-> undefined,
              fetched |-> << >>, puts |-> << >>])

\* ---------------------------------------------------------------- lifecycle
\* How a promise chain p.then(f).catch(g) settles: f runs only when p is
\* fulfilled; g turns a rejection into a fulfilment.
ThenCatch(p) ==
    LET afterThen == p                       \* f does not throw
    IN IF afterThen = "rejected" THEN "fulfilled" ELSE afterThen

\* p.catch(g): g turns a rejection into a fulfilment.
Catch(p) == IF p = "rejected" THEN "fulfilled" ELSE p

PromiseAll_Any(states) ==
    IF "fulfilled" \in states THEN "fulfilled"
    ELSE IF "rejected" \in states THEN "rejected"
    ELSE "pending"

\* Promise.all over promises in the given states: it rejects as soon as one
\* of them rejects and fulfils once all of them have fulfilled.
PromiseAll(states) ==
    IF "rejected" \in states THEN "rejected"
    ELSE IF "pending" \in states THEN "pending"
    ELSE "fulfilled"

\* The asset branch of the install: cache.addAll(urlsToCache).
AssetPrecache(w, asset) ==
    [w |-> AddAll(w, CACHE_NAME,
                  {Resolve(urlsToCache[i]) : i \in 1..Len(urlsToCache)}, asset),
     state |-> IF asset.ok THEN "fulfilled" ELSE "rejected"]

ApiPrecache_NoCatch(w, endpoints, api) ==
    [w |-> AddAll(w, API_CACHE_NAME, Range(endpoints), api),
     state |-> IF api.ok THEN "fulfilled" ELSE "rejected"]

\* The API branch of the install: cache.addAll(API_ENDPOINTS).catch(...).
ApiPrecache(w, endpoints, api) ==
    [w |-> AddAll(w, API_CACHE_NAME, Range(endpoints), api),
     state |-> Catch(IF api.ok THEN "fulfilled" ELSE "rejected")]

\* The install listener's work.  asset, api: the outcomes of the two addAll.
install(w, endpoints, asset, api) ==
    LET opened == Open(Open(w, CACHE_NAME), API_CACHE_NAME)
        assets == AddAll(opened, CACHE_NAME,
                         {Resolve(urlsToCache[i]) : i \in 1..Len(urlsToCache)}, asset)
        both == AddAll(assets, API_CACHE_NAME, Range(endpoints), api)
        all == IF asset.ok THEN "fulfilled" ELSE "rejected"
    IN [w |-> both,
        settled |-> ThenCatch(all),
        signals |-> IF all = "fulfilled" THEN {"skipWaiting"} ELSE {}]

StaleNames_Or(names) ==
    {n \in Range(names) : n # CACHE_NAME \/ n # API_CACHE_NAME}

\* The names the activate listener's filter keeps for deletion.
StaleNames(names) ==
    {n \in Range(names) : n # CACHE_NAME /\ n # API_CACHE_NAME}

\* The activate listener's work.  failing: the stores whose caches.delete
\* rejects; every deletion is started, Promise.all rejects when one fails.
activate(w, failing) ==
    LET all == IF StaleNames(w.names) \cap failing = {} THEN "fulfilled" ELSE "rejected"
    IN [w |-> CachesDelete(w, StaleNames(w.names) \ failing),
        settled |-> ThenCatch(all),
        signals |-> IF all = "fulfilled" THEN {"claim"} ELSE {}]

\* -------------------------------------------------------------------- state
VARIABLES
    cacheNames,    \* the registry's store names, in creation order
    caches,        \* store name -> (url -> stored response)
    phase,         \* "parsed", "installed" or "activated"
    endpoints,     \* the configured API endpoint list
    last,          \* what the last handled event did and handed to the host
    everCached,    \* the offline or the index page has been in a store
    tasks          \* the asynchronous work in flight, step by step

vars == << cacheNames, caches, phase, endpoints, last, everCached, tasks >>

W == [names |-> cacheNames, stores |-> caches]

NoUrl == [protocol |-> "", hostname |-> "", path |-> ""]
Nothing ==
    [op |-> "none", class |-> "none", url |-> NoUrl, mode |-> "none", html |-> FALSE,
     response |-> undefined, fetched |-> << >>, nets |-> << >>, puts |-> << >>,
     deleted |-> {}, settled |-> "none", signals |-> {}]

\* No install, activation or request handling is in flight.
NoTasks == [install |-> << >>, activate |-> << >>, fetches |-> << >>, writes |-> << >>]

HasFallback(w) ==
    CachesMatch(w, OfflineUrl) # undefined \/ CachesMatch(w, IndexUrl) # undefined

\* Stores of earlier versions of the worker, as those versions filled them.
OldAssetName(k) == "zaq_myapp_v" \o ToString(AssetVersion - k)
OldApiName(k) == "zaq_api_cache_v" \o ToString(ApiVersion - k)
OldEntry(url) == [status |-> StatusOk, body |-> Href(url), ver |-> 0, bodyUsed |-> FALSE]
OldStore(name) ==
    IF name \in {OldAssetName(k) : k \in 1..MaxOldVersions}
    THEN [u \in {Resolve(urlsToCache[i]) : i \in 1..Len(urlsToCache)} |-> OldEntry(u)]
    ELSE [u \in {EndpointUrl(1)} |-> OldEntry(u)]
\* Oldest first: asset and API store of each past version.
OldNames ==
    [i \in 1..(2 * MaxOldVersions) |->
        IF i % 2 = 1 THEN OldAssetName(MaxOldVersions - (i - 1) \div 2)
        ELSE OldApiName(MaxOldVersions - (i - 1) \div 2)]

OldRegistry(kept) ==
    /\ cacheNames = Without(OldNames, Range(OldNames) \ kept)
    /\ caches = [n \in kept |-> OldStore(n)]

\* The worker as the source configures it, started on a registry holding any
\* of the stores earlier versions left.
Init ==
    /\ \E kept \in SUBSET Range(OldNames) : OldRegistry(kept)
    /\ phase = "parsed"
    /\ endpoints = API_ENDPOINTS
    /\ last = Nothing
    /\ everCached = HasFallback(W)
    /\ tasks = NoTasks

Commit(w) ==
    /\ cacheNames' = w.names
    /\ caches' = w.stores
    /\ everCached' = (everCached \/ HasFallback(w))

\* The install event of a new instance of this script (first installation, or
\* a re-installation while an instance is active), the asset precache ending
\* in one of the given outcomes.
InstallWith(assetOutcomes) ==
    /\ phase \in {"parsed", "activated"}
    /\ \E asset \in assetOutcomes, api \in AddAllOutcomes :
          LET r == install(W, endpoints, asset, api)
          IN /\ Commit(r.w)
             /\ last' = [Nothing EXCEPT
                           !.op = "install",
                           !.settled = r.settled,
                           !.signals = r.signals
                               \cup (IF asset.ok THEN {"assetPrecached"} ELSE {})
                               \cup (IF api.ok THEN {"apiPrecached"} ELSE {})]
             \* the host goes on to activate an instance whose install promise
             \* fulfilled, and discards one whose promise rejected
             /\ phase' = IF r.settled = "fulfilled" THEN "installed" ELSE "parsed"
    /\ UNCHANGED << endpoints, tasks >>

Install == InstallWith(AddAllOutcomes)

\* The activate event; failing: the stores whose deletion the registry refuses.
ActivateWith(failing) ==
    /\ phase = "installed"
    /\ LET r == activate(W, failing)
       IN /\ Commit(r.w)
          /\ last' = [Nothing EXCEPT
                        !.op = "activate",
                        !.deleted = StaleNames(cacheNames),
                        !.settled = r.settled,
                        !.signals = r.signals
                            \cup (IF failing # {} THEN {"deleteFailed"} ELSE {})]
    /\ phase' = "activated"
    /\ UNCHANGED << endpoints, tasks >>

\* Activation on a registry that carries out every deletion.
Activate == ActivateWith({})

\* What a strategy did with a request, as the host or the caller sees it.
Handled(op, class, request, r, o) ==
    [Nothing EXCEPT
        !.op = op,
        !.class = class,
        !.url = request.url,
        !.mode = request.mode,
        !.html = AcceptsHtml(request),
        !.response = r.response,
        !.fetched = r.fetched,
        !.nets = [i \in 1..Len(r.fetched) |-> o.net],
        !.puts = r.puts,
        !.settled = IF class = "ignored" THEN "none" ELSE "fulfilled"]

\* A fetch event for one of the given requests, through the listener's
\* dispatch, the network call ending in one of the given outcomes.
FetchWith(requests, outcomes) ==
    /\ phase = "activated"
    /\ \E request \in requests, o \in outcomes :
          LET r == Dispatch(request, W, o)
          IN /\ Commit(r.w)
             /\ last' = Handled("fetch", Classify(request), request, r, o)
    /\ UNCHANGED << phase, endpoints, tasks >>

FetchOf(requests) == FetchWith(requests, FetchOutcomes)

FetchEvent == FetchOf(PageRequests)

\* A sync event; the listener acts on the tag 'background-sync' alone.
SyncEvent ==
    /\ phase = "activated"
    /\ \E tag \in {"background-sync", "other-tag"} :
          IF tag = "background-sync"
          THEN \E outcomes \in SyncOutcomes(Len(endpoints)) :
               LET r == doBackgroundSync(endpoints, W, outcomes)
               IN /\ Commit(r.w)
                  /\ last' = [Nothing EXCEPT
                                !.op = "sync",
                                !.fetched = r.fetched,
                                !.nets = [i \in 1..Len(r.fetched) |-> outcomes[i].net],
                                !.puts = r.puts,
                                !.settled = "fulfilled"]
          ELSE /\ Commit(W)
               /\ last' = [Nothing EXCEPT !.op = "sync"]
    /\ UNCHANGED << phase, endpoints, tasks >>

Next == Install \/ Activate \/ FetchEvent \/ SyncEvent

Spec == Init /\ [][Next]_vars

\* ---- the background sync over a configured endpoint list of any length up
\* ---- to MaxEndpoints, with the API requests of the pages
InitSync ==
    /\ OldRegistry({})
    /\ phase = "parsed"
    /\ endpoints \in EndpointLists
    /\ last = Nothing
    /\ everCached = FALSE
    /\ tasks = NoTasks

ApiFetchEvent == FetchOf(ApiRequests)

\* Here the asset precache succeeds and stores the first content version.
InstallApiSide == InstallWith({o \in AddAllOutcomes : o.ok /\ o.ver = 1})

NextSync == InstallApiSide \/ Activate \/ ApiFetchEvent \/ SyncEvent

SpecSync == InitSync /\ [][NextSync]_vars

\* ---- the two cache-first strategy functions called directly, as a test of
\* ---- one function calls them, on the stores the lifecycle leaves
CallNavigation ==
    /\ phase = "activated"
    /\ \E request \in DirectRequests, o \in FetchOutcomes :
          LET r == handleNavigationRequest(request, W, o)
          IN /\ Commit(r.w)
             /\ last' = Handled("call", "navigation", request, r, o)
    /\ UNCHANGED << phase, endpoints, tasks >>

CallApp ==
    /\ phase = "activated"
    /\ \E request \in DirectRequests, o \in FetchOutcomes :
          LET r == handleAppRequest(request, W, o)
          IN /\ Commit(r.w)
             /\ last' = Handled("call", "asset", request, r, o)
    /\ UNCHANGED << phase, endpoints, tasks >>

NextUnit == Install \/ Activate \/ CallNavigation \/ CallApp

SpecUnit == Init /\ [][NextUnit]_vars

\* ---- the fetch listener under every request a fetch event can carry
\* ---- (the network serving one content version: the dispatch does not look
\* ---- at the content)
OneVersion == {o \in FetchOutcomes : o.net.ver <= 1}
AnyFetchEvent == FetchWith(AnyRequests, OneVersion)

\* The asset precache fails or stores that version.
InstallOneVersion == InstallWith({o \in AddAllOutcomes : o.ver <= 1})

NextDispatch == InstallOneVersion \/ Activate \/ AnyFetchEvent

SpecDispatch == Init /\ [][NextDispatch]_vars

\* ---- the worker on a registry that may refuse the deletion of a store
\* ---- (caches.delete rejecting); the stores of earlier versions hold content
\* ---- version 0, the network serves version 1
ActivateFailing ==
    \E failing \in {{}} \cup {{n} : n \in StaleNames(cacheNames)} : ActivateWith(failing)

OneVersionFetchEvent == FetchWith(PageRequests, OneVersion)

NextFaulty == InstallOneVersion \/ ActivateFailing \/ OneVersionFetchEvent

SpecFaulty == Init /\ [][NextFaulty]_vars

\* ---- install and activation step by step: the two precache branches of the
\* ---- install and the deletions of the activation each complete on their
\* ---- own, in any order, and the chain given to event.waitUntil settles
\* ---- when its Promise.all does
InstallTask == tasks.install[1]
ActivateTask == tasks.activate[1]
\* The state of the promise of one deletion.
DeletionState(a, n) ==
    IF n \in a.done THEN "fulfilled" ELSE IF n \in a.failed THEN "rejected" ELSE "pending"
\* No branch of an install and no deletion of an activation is still running.
Quiet ==
    /\ tasks.install # << >> =>
          /\ InstallTask.chain # "pending"
          /\ InstallTask.asset # "pending" /\ InstallTask.api # "pending"
    /\ tasks.activate # << >> =>
          /\ ActivateTask.chain # "pending"
          /\ ActivateTask.stale = ActivateTask.done \cup ActivateTask.failed

\* The install event: both caches.open are issued, asset store first.
InstallBegin ==
    /\ phase \in {"parsed", "activated"}
    /\ Quiet
    /\ Commit(Open(Open(W, CACHE_NAME), API_CACHE_NAME))
    /\ tasks' = [tasks EXCEPT
                    !.install = << [asset |-> "pending", api |-> "pending",
                                    assetOk |-> FALSE, apiOk |-> FALSE,
                                    chain |-> "pending", signals |-> {}] >>,
                    !.activate = << >>]
    /\ UNCHANGED << phase, endpoints, last >>

\* cache.addAll(urlsToCache) completes.
AssetBranch ==
    /\ tasks.install # << >> /\ InstallTask.asset = "pending"
    /\ \E asset \in AddAllOutcomes :
          LET r == AssetPrecache(W, asset)
          IN /\ Commit(r.w)
             /\ tasks' = [tasks EXCEPT !.install[1].asset = r.state,
                                        !.install[1].assetOk = asset.ok]
    /\ UNCHANGED << phase, endpoints, last >>

\* cache.addAll(API_ENDPOINTS) completes and its catch has run.
ApiBranch ==
    /\ tasks.install # << >> /\ InstallTask.api = "pending"
    /\ \E api \in AddAllOutcomes :
          LET r == ApiPrecache(W, endpoints, api)
          IN /\ Commit(r.w)
             /\ tasks' = [tasks EXCEPT !.install[1].api = r.state,
                                        !.install[1].apiOk = api.ok]
    /\ UNCHANGED << phase, endpoints, last >>

\* Promise.all of the two branches settles; then skipWaiting, or the catch.
InstallSettle ==
    /\ tasks.install # << >> /\ InstallTask.chain = "pending"
    /\ LET all == PromiseAll({InstallTask.asset, InstallTask.api})
           signals == IF all = "fulfilled" THEN {"skipWaiting"} ELSE {}
       IN /\ all # "pending"
          /\ tasks' = [tasks EXCEPT !.install[1].chain = ThenCatch(all),
                                     !.install[1].signals = signals]
          /\ last' = [Nothing EXCEPT
                        !.op = "install",
                        !.settled = ThenCatch(all),
                        !.signals = signals
                            \cup (IF InstallTask.assetOk THEN {"assetPrecached"} ELSE {})
                            \cup (IF InstallTask.apiOk THEN {"apiPrecached"} ELSE {})]
          /\ phase' = IF ThenCatch(all) = "fulfilled" THEN "installed" ELSE "parsed"
    /\ UNCHANGED << cacheNames, caches, everCached, endpoints >>

\* The activate event: caches.keys() resolves and the deletion of every
\* stale name is started.
ActivateBegin ==
    /\ phase = "installed"
    /\ tasks.activate = << >>
    /\ tasks' = [tasks EXCEPT
                    !.activate = << [stale |-> StaleNames(cacheNames),
                                     done |-> {}, failed |-> {},
                                     chain |-> "pending", signals |-> {}] >>]
    /\ UNCHANGED << cacheNames, caches, everCached, phase, endpoints, last >>

\* One caches.delete(cacheName) completes; the registry refuses at most one.
DeleteStep ==
    /\ tasks.activate # << >>
    /\ \E n \in ActivateTask.stale \ (ActivateTask.done \cup ActivateTask.failed) :
          \/ /\ Commit(CachesDelete(W, {n}))
             /\ tasks' = [tasks EXCEPT !.activate[1].done = @ \cup {n}]
          \/ /\ ActivateTask.failed = {}
             /\ Commit(W)
             /\ tasks' = [tasks EXCEPT !.activate[1].failed = @ \cup {n}]
    /\ UNCHANGED << phase, endpoints, last >>

\* Promise.all of the deletions settles; then clients.claim, or the catch.
ActivateSettle ==
    /\ tasks.activate # << >> /\ ActivateTask.chain = "pending"
    /\ LET all == PromiseAll({DeletionState(ActivateTask, n) : n \in ActivateTask.stale})
           signals == IF all = "fulfilled" THEN {"claim"} ELSE {}
       IN /\ all # "pending"
          /\ tasks' = [tasks EXCEPT !.activate[1].chain = ThenCatch(all),
                                     !.activate[1].signals = signals]
          /\ last' = [Nothing EXCEPT
                        !.op = "activate",
                        !.deleted = ActivateTask.stale,
                        !.settled = ThenCatch(all),
                        !.signals = signals
                            \cup (IF ActivateTask.failed # {} THEN {"deleteFailed"} ELSE {})]
    /\ phase' = "activated"
    /\ UNCHANGED << cacheNames, caches, everCached, endpoints >>

NextSteps ==
    \/ InstallBegin \/ AssetBranch \/ ApiBranch \/ InstallSettle
    \/ ActivateBegin \/ DeleteStep \/ ActivateSettle

SpecSteps == Init /\ [][NextSteps]_vars

\* ---- two fetch events for one same-origin URL handled concurrently: each
\* ---- handler is a task that yields at its cache lookup, its network call
\* ---- and its store write, and the tasks' steps interleave in any order
EmptyRegistry == [names |-> << >>, stores |-> [n \in {} |-> EmptyStore]]
\* The worker activated after its install on an empty registry.
InitRace ==
    /\ \E asset \in AddAllOutcomes :
          LET w == install(EmptyRegistry, API_ENDPOINTS, asset, [ok |-> FALSE, ver |-> 0]).w
          IN cacheNames = w.names /\ caches = w.stores
    /\ phase = "activated"
    /\ endpoints = API_ENDPOINTS
    /\ last = Nothing
    /\ everCached = HasFallback(W)
    /\ tasks = NoTasks

\* A page navigation and a subresource request for a URL.
RaceRequests(url) ==
    {[url |-> url, mode |-> "navigate", accept |-> HtmlAccept],
     [url |-> url, mode |-> "no-cors", accept |-> AnyAccept]}
NoOutcome == [net |-> [threw |-> FALSE, status |-> 0, ver |-> 0], putOk |-> FALSE]
\* The handler the listener starts for a request, before its first await.
NewTask(request) ==
    [class |-> Classify(request), request |-> request, pc |-> "lookup",
     missed |-> FALSE, o |-> NoOutcome, response |-> undefined]

\* Two fetch events for the same URL arrive; the listener starts both handlers.
RaceBegin ==
    /\ phase = "activated"
    /\ tasks.fetches = << >>
    /\ \E url \in SameOriginUrls : \E r1 \in RaceRequests(url), r2 \in RaceRequests(url) :
          tasks' = [tasks EXCEPT !.fetches = << NewTask(r1), NewTask(r2) >>]
    /\ UNCHANGED << cacheNames, caches, everCached, phase, endpoints, last >>

\* await caches.match(request): a hit is returned, a miss goes on to the network.
LookupStep(i) ==
    /\ i \in DOMAIN tasks.fetches /\ tasks.fetches[i].pc = "lookup"
    /\ LET t == tasks.fetches[i]
           cached == CachesMatch(W, t.request.url)
       IN tasks' = [tasks EXCEPT !.fetches[i] =
                       IF cached # undefined
                       THEN [t EXCEPT !.pc = "done", !.response = cached]
                       ELSE [t EXCEPT !.pc = "network", !.missed = TRUE]]
    /\ UNCHANGED << cacheNames, caches, everCached, phase, endpoints, last >>

\* await fetch(request): an ok answer goes on to the store write, a throw or
\* a non-ok answer to the fallbacks.
NetworkStep(i) ==
    /\ i \in DOMAIN tasks.fetches /\ tasks.fetches[i].pc = "network"
    /\ \E o \in FetchOutcomes :
          LET t == tasks.fetches[i]
              networkResponse == NetworkResponse(t.request.url, o.net)
          IN tasks' = [tasks EXCEPT !.fetches[i] =
                          [t EXCEPT !.o = o,
                                    !.pc = IF ~o.net.threw /\ ok(networkResponse)
                                           THEN "put" ELSE "fallback"]]
    /\ UNCHANGED << cacheNames, caches, everCached, phase, endpoints, last >>

\* clone, await caches.open(CACHE_NAME), await cache.put (a throw is caught),
\* return networkResponse.
PutStep(i) ==
    /\ i \in DOMAIN tasks.fetches /\ tasks.fetches[i].pc = "put"
    /\ LET t == tasks.fetches[i]
           networkResponse == NetworkResponse(t.request.url, t.o.net)
           responseClone == clone(networkResponse)
           opened == Open(W, CACHE_NAME)
       IN /\ Commit(IF t.o.putOk
                    THEN CachePut(opened, CACHE_NAME, t.request.url, responseClone)
                    ELSE opened)
          /\ tasks' = [tasks EXCEPT
                          !.fetches[i] = [t EXCEPT !.pc = "done",
                                                   !.response = networkResponse],
                          !.writes = IF t.o.putOk THEN Append(@, i) ELSE @]
    /\ UNCHANGED << phase, endpoints, last >>

\* The end of the handler after a failed network call: the offline page and
\* then the index page (navigation), or the fallback expression or the 503
\* (asset).
FallbackStep(i) ==
    /\ i \in DOMAIN tasks.fetches /\ tasks.fetches[i].pc = "fallback"
    /\ LET t == tasks.fetches[i]
           fallback == CachesMatch(W, OfflineUrl)
       IN tasks' = [tasks EXCEPT !.fetches[i] =
                       [t EXCEPT !.pc = "done",
                                 !.response =
                                    IF t.class = "navigation"
                                    THEN IF fallback # undefined THEN fallback
                                         ELSE CachesMatch(W, IndexUrl)
                                    ELSE IF AcceptsHtml(t.request)
                                    THEN PromiseOr(CachesMatch(W, OfflineUrl),
                                                   CachesMatch(W, IndexUrl))
                                    ELSE UnavailableResponse]]
    /\ UNCHANGED << cacheNames, caches, everCached, phase, endpoints, last >>

\* The next step of the i-th handler.
TaskStep(i) == LookupStep(i) \/ NetworkStep(i) \/ PutStep(i) \/ FallbackStep(i)

NextRace ==
    \/ RaceBegin
    \/ \E i \in 1..2 : LookupStep(i)
    \/ \E i \in 1..2 : NetworkStep(i)
    \/ \E i \in 1..2 : PutStep(i)
    \/ \E i \in 1..2 : FallbackStep(i)

SpecRace == InitRace /\ [][NextRace]_vars

TypeOK ==
    /\ phase \in {"parsed", "installed", "activated"}
    /\ DOMAIN caches = Range(cacheNames)

\* ------------------------------------------------------------------- claims
\* The entries the registry holds for a URL, over all its stores.
Entries(url) == {caches[n][url] : n \in {m \in DOMAIN caches : url \in DOMAIN caches[m]}}
\* The network call failed: it threw or was answered with a non-ok status.
Failed(net) == net.threw \/ net.status < 200 \/ net.status > 299
\* The last event ran the given strategy on a request.
Ran(l, class) == l.op \in {"fetch", "call"} /\ l.class = class
Untouched == cacheNames' = cacheNames /\ caches' = caches

\* C1: when the mandatory asset precache fails during install, the outcome
\* handed to the host is a failure and the instance does not go on to activate.
C1_PrecacheFailureFailsInstall ==
    (last.op = "install" /\ "assetPrecached" \notin last.signals)
        => (last.settled = "rejected" /\ phase # "installed")

\* C2: once the offline page or the index page has been cached, every
\* navigation handled by the navigation strategy resolves to some response.
C2_NavigationAlwaysResolves ==
    (everCached /\ Ran(last, "navigation")) => last.response # undefined

\* C3: the API strategy always resolves to a response: the network's when it
\* is ok, else a cached entry for the request when there is one, else the
\* synthesized empty JSON array.
C3_ApiAlwaysResponds ==
    [][Ran(last', "api") =>
        /\ last'.settled = "fulfilled"
        /\ last'.response # undefined
        /\ Len(last'.nets) = 1
        /\ IF ~Failed(last'.nets[1])
           THEN last'.response = NetworkResponse(last'.url, last'.nets[1])
           ELSE IF Entries(last'.url) # {}
           THEN last'.response \in Entries(last'.url)
           ELSE last'.response = EmptyArrayResponse]_vars

\* C3 witness: a non-ok answer from the network, served from the API store.
C3_Witness ==
    /\ Ran(last, "api")
    /\ ~last.nets[1].threw /\ last.nets[1].status = StatusNotFound
    /\ last.response \in Entries(last.url)

\* C4: reconciliation deletes exactly the stores named neither by the asset
\* token nor by the API token, and leaves the two current stores and their
\* entries as they were, whatever stores the registry held.
C4_ReconcileDeletesExactlyStale ==
    [][last'.op = "activate" =>
        /\ Range(cacheNames') = Range(cacheNames) \cap {CACHE_NAME, API_CACHE_NAME}
        /\ DOMAIN caches' = Range(cacheNames')
        /\ \A n \in Range(cacheNames') : caches'[n] = caches[n]
        /\ last'.deleted = Range(cacheNames) \ {CACHE_NAME, API_CACHE_NAME}]_vars

\* C4 witness: an activation that found stores of several old versions and
\* left the two current ones, the asset store still holding its entries.
C4_Witness ==
    /\ last.op = "activate"
    /\ Cardinality(last.deleted) > 2
    /\ Range(cacheNames) = {CACHE_NAME, API_CACHE_NAME}
    /\ OfflineUrl \in DOMAIN caches[CACHE_NAME]

\* C5: a navigation whose request the asset store holds is answered with that
\* entry, without a network call and without a store write.
C5_NavigationCacheFirst ==
    [][(/\ Ran(last', "navigation")
        /\ CACHE_NAME \in DOMAIN caches
        /\ last'.url \in DOMAIN caches[CACHE_NAME]) =>
        /\ last'.response = caches[CACHE_NAME][last'.url]
        /\ last'.fetched = << >>
        /\ last'.puts = << >>
        /\ Untouched]_vars

\* C5 witness: a navigation answered from the asset store with no network call.
C5_Witness ==
    /\ last.op = "fetch" /\ last.class = "navigation"
    /\ last.url \in DOMAIN caches[CACHE_NAME]
    /\ last.response = caches[CACHE_NAME][last.url]
    /\ last.fetched = << >>

\* C6: a navigation with no cached entry for its request and a failed network
\* call is answered with the stored offline page when there is one, and with
\* the stored index page when there is no offline page but an index page.
C6_NavigationFallbackChain ==
    [][(/\ Ran(last', "navigation")
        /\ Entries(last'.url) = {}
        /\ Len(last'.nets) = 1 /\ Failed(last'.nets[1])) =>
        /\ Entries(OfflineUrl) # {} => last'.response \in Entries(OfflineUrl)
        /\ (Entries(OfflineUrl) = {} /\ Entries(IndexUrl) # {})
              => last'.response \in Entries(IndexUrl)]_vars

\* C6 witness: the network threw, no offline page is stored, and the stored
\* index page was the answer.
C6_Witness ==
    /\ last.op = "fetch" /\ last.class = "navigation"
    /\ Len(last.nets) = 1 /\ last.nets[1].threw
    /\ Entries(OfflineUrl) = {}
    /\ last.response \in Entries(IndexUrl)

\* C8: a same-origin asset request with a cache miss, a failed network call
\* and no HTML accept header is answered with the synthesized 503, never with
\* the network's non-ok answer, and writes nothing.
C8_AssetFailureIs503 ==
    [][(/\ Ran(last', "asset")
        /\ Entries(last'.url) = {}
        /\ Len(last'.nets) = 1 /\ Failed(last'.nets[1])
        /\ ~last'.html) =>
        /\ last'.response = UnavailableResponse
        /\ last'.response.status = StatusUnavailable
        /\ last'.puts = << >>
        /\ Untouched]_vars

\* C8 witness: the network answered non-ok and the 503 was handed out.
C8_Witness ==
    /\ last.op = "fetch" /\ last.class = "asset"
    /\ Len(last.nets) = 1 /\ ~last.nets[1].threw
    /\ last.nets[1].status = StatusNotFound
    /\ last.response = UnavailableResponse

\* C9: an ok answer to an API request is handed to the caller unconsumed,
\* whether or not the store write succeeds; the write is attempted with a
\* duplicate, into the API store, under the request's URL.
C9_ApiReturnsOriginal ==
    [][(/\ Ran(last', "api")
        /\ Len(last'.nets) = 1 /\ ~Failed(last'.nets[1])) =>
        /\ last'.response = NetworkResponse(last'.url, last'.nets[1])
        /\ ~last'.response.bodyUsed
        /\ last'.settled = "fulfilled"
        /\ Len(last'.puts) = 1
        /\ last'.puts[1].cache = API_CACHE_NAME
        /\ last'.puts[1].url = last'.url
        /\ last'.puts[1].response = clone(last'.response)
        /\ IF last'.puts[1].ok
           THEN caches'[API_CACHE_NAME][last'.url] = last'.puts[1].response
           ELSE \A n \in DOMAIN caches : caches'[n] = caches[n]]_vars

\* C9 witness: the store write failed and the caller still got the ok answer.
C9_Witness ==
    /\ last.op = "fetch" /\ last.class = "api"
    /\ Len(last.puts) = 1 /\ ~last.puts[1].ok
    /\ last.response.status = StatusOk /\ ~last.response.bodyUsed
    /\ last.response.body = Href(last.url)

\* C7: a same-origin asset request with a cache miss, a failed network call and
\* an HTML accept header is answered as the navigation strategy answers at
\* its end: the offline page when stored, otherwise the index page when stored.
C7_AssetHtmlFallbackAsNavigation ==
    [][(/\ Ran(last', "asset")
        /\ Entries(last'.url) = {}
        /\ Len(last'.nets) = 1 /\ Failed(last'.nets[1])
        /\ last'.html) =>
        /\ last'.response =
              handleNavigationRequest(
                  [url |-> last'.url, mode |-> "navigate", accept |-> HtmlAccept],
                  W, [net |-> last'.nets[1], putOk |-> TRUE]).response
        /\ Entries(OfflineUrl) # {} => last'.response \in Entries(OfflineUrl)
        /\ (Entries(OfflineUrl) = {} /\ Entries(IndexUrl) # {})
              => last'.response \in Entries(IndexUrl)]_vars

\* The API store's entry for a URL in a registry's stores, undefined when none.
ApiEntry(stores, url) ==
    IF API_CACHE_NAME \in DOMAIN stores /\ url \in DOMAIN stores[API_CACHE_NAME]
    THEN stores[API_CACHE_NAME][url] ELSE undefined
\* The last event was a background sync the listener acted on.
Synced(l) == l.op = "sync" /\ l.settled # "none"
\* The store writes the last event attempted under a URL.
PutsOf(l, url) == {i \in 1..Len(l.puts) : l.puts[i].url = url}

\* C10 as stated: in a background sync every endpoint is attempted, an
\* endpoint answered ok has its API-store entry overwritten with the new
\* response, one whose fetch fails keeps its entry, and the sync never fails.
C10_SyncOverwritesEveryOkEndpoint ==
    [][Synced(last') =>
        /\ last'.settled = "fulfilled"
        /\ last'.fetched = endpoints
        /\ \A i \in 1..Len(endpoints) :
              IF ~Failed(last'.nets[i])
              THEN ApiEntry(caches', endpoints[i])
                      = NetworkResponse(endpoints[i], last'.nets[i])
              ELSE ApiEntry(caches', endpoints[i]) = ApiEntry(caches, endpoints[i])]_vars

\* C10 amended: every endpoint is attempted and the sync never fails; an
\* endpoint answered ok has a duplicate of the answer put into the API store
\* under its URL, and its entry is the new response when that write succeeds;
\* an endpoint whose fetch or whose store write fails keeps its entry.
C10_SyncPerEndpoint ==
    [][Synced(last') =>
        /\ last'.settled = "fulfilled"
        /\ last'.fetched = endpoints
        /\ \A i \in 1..Len(endpoints) :
              LET new == NetworkResponse(endpoints[i], last'.nets[i])
                  written == PutsOf(last', endpoints[i])
              IN IF ~Failed(last'.nets[i])
                 THEN /\ Cardinality(written) = 1
                      /\ \A j \in written :
                            /\ last'.puts[j].cache = API_CACHE_NAME
                            /\ last'.puts[j].response = clone(new)
                            /\ ApiEntry(caches', endpoints[i]) =
                                  IF last'.puts[j].ok THEN new
                                  ELSE ApiEntry(caches, endpoints[i])
                 ELSE /\ written = {}
                      /\ ApiEntry(caches', endpoints[i])
                            = ApiEntry(caches, endpoints[i])]_vars

\* C10 witness: of two endpoints the first threw and kept the entry it had,
\* and the second, fetched after it, has the new response as its entry.
C10_Witness ==
    /\ Synced(last)
    /\ Len(last.fetched) = 2
    /\ last.nets[1].threw /\ ~Failed(last.nets[2])
    /\ ApiEntry(caches, endpoints[1]) # undefined
    /\ ApiEntry(caches, endpoints[1]).ver # last.nets[2].ver
    /\ ApiEntry(caches, endpoints[2]) = NetworkResponse(endpoints[2], last.nets[2])

\* The request the last event handled, as far as the strategies look at it.
RequestOf(l) ==
    [url |-> l.url, mode |-> l.mode, accept |-> IF l.html THEN HtmlAccept ELSE NoAccept]
\* The registry a step leaves.
WNext == [names |-> cacheNames', stores |-> caches']
\* The step is what the given strategy does with the request under some outcome
\* of its network call and store write.
Applies(r, l) ==
    /\ r.response = l.response
    /\ r.fetched = l.fetched
    /\ r.puts = l.puts
    /\ r.w = WNext

\* C12: every intercepted request gets exactly one handling, the first match
\* of: extension scheme -> no response; API hostname -> API strategy;
\* navigation mode or HTML accept -> navigation strategy; page origin ->
\* asset strategy; otherwise -> default strategy.  The class is a function of
\* scheme, hostname, origin, mode and accept alone.
C12_DispatchFirstMatch ==
    [][last'.op = "fetch" =>
        LET l == last'
            extension == l.url.protocol \in {"chrome-extension:", "moz-extension:"}
            api == l.url.hostname = ApiHostname
            navigation == l.mode = "navigate" \/ l.html
            sameOrigin == Origin(l.url) = Origin(location)
            request == RequestOf(l)
        IN /\ l.class \in {"ignored", "api", "navigation", "asset", "default"}
           /\ l.class = "ignored" <=> extension
           /\ l.class = "api" <=> (~extension /\ api)
           /\ l.class = "navigation" <=> (~extension /\ ~api /\ navigation)
           /\ l.class = "asset" <=> (~extension /\ ~api /\ ~navigation /\ sameOrigin)
           /\ l.class = "default" <=> (~extension /\ ~api /\ ~navigation /\ ~sameOrigin)
           /\ l.class = "ignored" =>
                 /\ l.settled = "none" /\ l.response = undefined
                 /\ l.fetched = << >> /\ Untouched
           /\ l.class # "ignored" => l.settled = "fulfilled"
           /\ l.class = "api" =>
                 \E o \in FetchOutcomes : Applies(handleApiRequest(request, W, o), l)
           /\ l.class = "navigation" =>
                 \E o \in FetchOutcomes : Applies(handleNavigationRequest(request, W, o), l)
           /\ l.class = "asset" =>
                 \E o \in FetchOutcomes : Applies(handleAppRequest(request, W, o), l)
           /\ l.class = "default" =>
                 \E o \in FetchOutcomes : Applies(defaultStrategy(request, W, o), l)]_vars

\* C12 witness: a navigation with an HTML accept header to the API hostname,
\* handled by the API strategy (answered with the empty JSON array).
C12_Witness ==
    /\ last.op = "fetch" /\ last.class = "api"
    /\ last.mode = "navigate" /\ last.html
    /\ last.url.hostname = ApiHostname
    /\ last.response = EmptyArrayResponse

\* C20: no request the fetch listener hands to the same-origin-asset strategy
\* has an HTML accept header, and every dispatched asset request whose cache
\* lookup missed and whose network call failed ends in the synthesized 503.
C20_DispatchedAssetNeverHtml ==
    (last.op = "fetch" /\ last.class = "asset") =>
        /\ ~last.html
        /\ (Len(last.nets) = 1 /\ Failed(last.nets[1]))
              => last.response = UnavailableResponse

\* C20 witness: a dispatched asset request, the network throwing, ended in
\* the 503.
C20_Witness ==
    /\ last.op = "fetch" /\ last.class = "asset"
    /\ last.mode = "no-cors" /\ ~last.html
    /\ Len(last.nets) = 1 /\ last.nets[1].threw
    /\ last.response = UnavailableResponse

\* C13: a request of the default class is answered with whatever the network
\* answers, ok or not; when the network call throws, with the cached entry for
\* the request when there is one, and otherwise with no response at all:
\* nothing is synthesized, nothing rejects, nothing is written.
C13_DefaultNetworkThenCache ==
    [][Ran(last', "default") =>
        /\ last'.settled = "fulfilled"
        /\ Len(last'.nets) = 1
        /\ IF ~last'.nets[1].threw
           THEN last'.response = NetworkResponse(last'.url, last'.nets[1])
           ELSE IF Entries(last'.url) # {}
           THEN last'.response \in Entries(last'.url)
           ELSE last'.response = undefined
        /\ last'.response \notin {EmptyArrayResponse, UnavailableResponse}
        /\ last'.puts = << >>
        /\ Untouched]_vars

\* C13 witness: the network threw and the cached entry for the third-party
\* request was the answer.
C13_Witness ==
    /\ Ran(last, "default")
    /\ last.nets[1].threw
    /\ last.response # undefined
    /\ last.response \in Entries(last.url)

\* C14: provisioning is idempotent on the stores: running the install's
\* provisioning again on the registry it left, with the same network
\* responses, leaves every store with the same keys and entries, and no store
\* name is held twice.
C14_ProvisioningIdempotent ==
    [][last'.op = "install" =>
        /\ Cardinality(Range(cacheNames')) = Len(cacheNames')
        /\ \A asset \in AddAllOutcomes, api \in AddAllOutcomes :
              install(W, endpoints, asset, api).w = WNext
                  => install(WNext, endpoints, asset, api).w = WNext]_vars

\* C14 witness: an install that ran on stores provisioned before (the API
\* store holds an entry although this install's API precache failed) and
\* stored the asset list.
C14_Witness ==
    /\ last.op = "install"
    /\ "assetPrecached" \in last.signals /\ "apiPrecached" \notin last.signals
    /\ ApiEntry(caches, EndpointUrl(1)) # undefined
    /\ DOMAIN caches[CACHE_NAME]
          = {Resolve(urlsToCache[i]) : i \in 1..Len(urlsToCache)}

\* C18: every entry of every store has an ok status and is no synthesized
\* response, and every store write attempted is of an ok response.
C18_OnlyOkSnapshotsStored ==
    /\ \A n \in DOMAIN caches : \A u \in DOMAIN caches[n] :
          /\ ok(caches[n][u])
          /\ caches[n][u] \notin {EmptyArrayResponse, UnavailableResponse}
    /\ \A i \in 1..Len(last.puts) :
          /\ ok(last.puts[i].response)
          /\ last.puts[i].response \notin {EmptyArrayResponse, UnavailableResponse}

\* C18 witness: a background sync answered non-ok wrote nothing, the API
\* store keeping the ok entry an earlier operation wrote.
C18_Witness ==
    /\ Synced(last)
    /\ Len(last.nets) = 1 /\ ~last.nets[1].threw
    /\ last.nets[1].status = StatusNotFound
    /\ last.puts = << >>
    /\ ApiEntry(caches, EndpointUrl(1)) # undefined
    /\ ApiEntry(caches, EndpointUrl(1)).ver >= 1

\* The (store, key) pairs whose entry a step created or changed.
Written ==
    {nu \in UNION {{<< n, u >> : u \in DOMAIN caches'[n]} : n \in DOMAIN caches'} :
        \/ nu[1] \notin DOMAIN caches
        \/ nu[2] \notin DOMAIN caches[nu[1]]
        \/ caches'[nu[1]][nu[2]] # caches[nu[1]][nu[2]]}
\* The step removed no store and no entry.
NothingDeleted ==
    /\ Range(cacheNames) \subseteq Range(cacheNames')
    /\ \A n \in DOMAIN caches : DOMAIN caches[n] \subseteq DOMAIN caches'[n]

\* C19: request handling and background sync delete nothing; the navigation
\* and asset strategies write at most one entry, into the current asset store
\* under the request's key; the API strategy and the sync write into the
\* current API store only; the default strategy and ignored requests write
\* nothing.
C19_StoreEffectsConfined ==
    [][last'.op \in {"fetch", "call", "sync"} =>
        /\ NothingDeleted
        /\ last'.class \in {"navigation", "asset"} =>
              /\ Written \subseteq {<< CACHE_NAME, last'.url >>}
              /\ Len(last'.puts) <= 1
              /\ \A i \in 1..Len(last'.puts) :
                    last'.puts[i].cache = CACHE_NAME /\ last'.puts[i].url = last'.url
        /\ last'.class = "api" =>
              /\ Written \subseteq {<< API_CACHE_NAME, last'.url >>}
              /\ \A i \in 1..Len(last'.puts) : last'.puts[i].cache = API_CACHE_NAME
        /\ last'.op = "sync" =>
              /\ Written \subseteq {<< API_CACHE_NAME, u >> : u \in Range(endpoints)}
              /\ \A i \in 1..Len(last'.puts) : last'.puts[i].cache = API_CACHE_NAME
        /\ last'.class \in {"default", "ignored"} =>
              /\ Written = {}
              /\ last'.puts = << >>
              /\ Untouched]_vars

\* C19 witness: a third-party request handled by the default strategy, its ok
\* answer returned, while the asset store holds the entry a same-origin
\* request wrote under its own key.
C19_Witness ==
    /\ Ran(last, "default")
    /\ ~Failed(last.nets[1])
    /\ Entries(last.url) = {}
    /\ IndexUrl \in DOMAIN caches[CACHE_NAME]
    /\ OfflineUrl \notin DOMAIN caches[CACHE_NAME]

\* The asset store's entry for a URL, undefined when none.
AssetEntry(stores, url) ==
    IF CACHE_NAME \in DOMAIN stores /\ url \in DOMAIN stores[CACHE_NAME]
    THEN stores[CACHE_NAME][url] ELSE undefined

\* C16: cache lookups are scoped to the strategy's own current store: the API
\* strategy's fallback returns the API store's entry for the request, and the
\* empty JSON array when that store has none; a cache hit of the navigation
\* and asset strategies is the asset store's entry.  An entry held only by
\* another store is never served.
C16_LookupsScopedToOwnStore ==
    [][/\ (Ran(last', "api") /\ Len(last'.nets) = 1 /\ Failed(last'.nets[1])) =>
            last'.response =
                IF ApiEntry(caches, last'.url) # undefined
                THEN ApiEntry(caches, last'.url) ELSE EmptyArrayResponse
       /\ ((Ran(last', "navigation") \/ Ran(last', "asset")) /\ last'.fetched = << >>) =>
            /\ AssetEntry(caches, last'.url) # undefined
            /\ last'.response = AssetEntry(caches, last'.url)]_vars

\* C11: in an install the API precache's failure is absorbed (its branch never
\* rejects), the asset store is provisioned whenever the asset precache
\* succeeded, and skipWaiting is signalled only once both branches have
\* finished and the asset precache succeeded; with the asset precache
\* successful the settled install has signalled it, whatever the API precache
\* did.
C11_InstallJoinsBothBranches ==
    tasks.install # << >> =>
        /\ InstallTask.api # "rejected"
        /\ "skipWaiting" \in InstallTask.signals =>
              /\ InstallTask.asset = "fulfilled" /\ InstallTask.assetOk
              /\ InstallTask.api = "fulfilled"
        /\ InstallTask.assetOk =>
              {Resolve(urlsToCache[i]) : i \in 1..Len(urlsToCache)}
                  \subseteq DOMAIN caches[CACHE_NAME]
        /\ (InstallTask.chain # "pending" /\ InstallTask.assetOk) =>
              /\ "skipWaiting" \in InstallTask.signals
              /\ InstallTask.chain = "fulfilled"

\* C11 witness: the API precache failed, the asset precache succeeded, and
\* the settled install signalled skipWaiting.
C11_Witness ==
    /\ tasks.install # << >>
    /\ InstallTask.api = "fulfilled" /\ ~InstallTask.apiOk
    /\ InstallTask.assetOk
    /\ "skipWaiting" \in InstallTask.signals
    /\ InstallTask.chain = "fulfilled"
    /\ DOMAIN caches[API_CACHE_NAME] = {}
    /\ OfflineUrl \in DOMAIN caches[CACHE_NAME]

\* C17: in an activation clients.claim is signalled only when every stale
\* store's deletion has completed and the stores are gone; when a deletion
\* fails, claim is not signalled and the activation still completes.
C17_ClaimAfterAllDeletions ==
    tasks.activate # << >> =>
        /\ ActivateTask.chain # "rejected"
        /\ "claim" \in ActivateTask.signals =>
              /\ ActivateTask.done = ActivateTask.stale
              /\ ActivateTask.failed = {}
              /\ Range(cacheNames) \cap ActivateTask.stale = {}
        /\ (ActivateTask.chain # "pending" /\ ActivateTask.failed # {}) =>
              /\ "claim" \notin ActivateTask.signals
              /\ ActivateTask.chain = "fulfilled"
              /\ phase = "activated"

\* C17 witness: of several deletions one completed and one failed; the
\* activation completed without claiming the clients.
C17_Witness ==
    /\ tasks.activate # << >>
    /\ ActivateTask.done # {} /\ ActivateTask.failed # {}
    /\ ActivateTask.chain = "fulfilled"
    /\ "claim" \notin ActivateTask.signals
    /\ phase = "activated"

\* C15: of two handlers of the same URL running concurrently, a handler whose
\* lookup missed and whose network call was answered ok returns its own
\* network response, unconsumed; the asset store's entry for the URL is the
\* duplicate put by the store write that completed last; when both missed,
\* were answered ok and wrote, two writes completed; and a handler that has
\* not returned always has a next step, whatever the other is doing.
C15_ConcurrentMissLastWriterWins ==
    tasks.fetches # << >> =>
        LET T == tasks.fetches
            url == T[1].request.url
        IN /\ T[2].request.url = url
           /\ \A i \in 1..2 :
                 /\ (T[i].pc = "done" /\ T[i].missed /\ ~Failed(T[i].o.net)) =>
                       /\ T[i].response = NetworkResponse(url, T[i].o.net)
                       /\ ~T[i].response.bodyUsed
                 /\ T[i].pc # "done" => ENABLED TaskStep(i)
           /\ tasks.writes # << >> =>
                 /\ url \in DOMAIN caches[CACHE_NAME]
                 /\ AssetEntry(caches, url)
                       = clone(T[tasks.writes[Len(tasks.writes)]].response)
           /\ (\A i \in 1..2 : T[i].pc = "done" /\ T[i].missed
                                  /\ ~Failed(T[i].o.net) /\ T[i].o.putOk)
                 => Len(tasks.writes) = 2

\* C15 witness: both handlers missed and got different content from the
\* network; the second handler wrote first, the first wrote last, and the
\* store holds the first handler's duplicate.
C15_Witness ==
    /\ tasks.fetches # << >>
    /\ \A i \in 1..2 : tasks.fetches[i].pc = "done" /\ tasks.fetches[i].missed
    /\ tasks.writes = << 2, 1 >>
    /\ tasks.fetches[1].o.net.ver # tasks.fetches[2].o.net.ver
    /\ tasks.fetches[1].class # tasks.fetches[2].class
    /\ AssetEntry(caches, tasks.fetches[1].request.url) = clone(tasks.fetches[1].response)
    /\ tasks.fetches[2].response
          = NetworkResponse(tasks.fetches[2].request.url, tasks.fetches[2].o.net)

====
